---- MODULE Spec2Model ----
(***************************************************************************)
(* TileIndex (src/index.go): a quadkey-sorted keyset guarded by one        *)
(* sync.RWMutex, with a lazily sorted entry slice.  Callers are goroutines *)
(* that run Add, Values and TileRange; every TileRange spawns a producer   *)
(* goroutine that fills a buffered channel while it holds the read lock.   *)
(***************************************************************************)
EXTENDS Integers, Sequences, FiniteSets, TLC

\* ---------------------------------------------------------------- bounds
NumThreads == 2     \* caller goroutines of the concurrent specification
MaxAdds == 3        \* Add calls in one run of a single caller
MaxZoom == 2        \* deepest zoom a single caller uses
ConcMaxAdds == 2    \* Add calls in one run of concurrent callers
ConcMaxZoom == 1    \* deepest zoom concurrent callers use
MaxReads == 2       \* Values and TileRange calls in one run
MaxX == 1           \* largest X coordinate of a tile handed to Add or Values
MaxY == 0           \* largest Y coordinate of such a tile
ChanCap == 2        \* buffer of the TileRange channel (1<<10 in the source, scaled down)

Threads == 1..NumThreads

\* ------------------------------------------------- Tile <-> QuadKey codec
\* A quadkey is a sequence of digits 0..3; digit order is byte order of "0".."3".
RECURSIVE Pow2(_)
Pow2(n) == IF n = 0 THEN 1 ELSE 2 * Pow2(n - 1)

\* the tiles of zoom at most `zoom` within the coordinate bounds
TilesTo(zoom) ==
  { t \in [Z : 0..zoom, X : 0..MaxX, Y : 0..MaxY] :
      t.X < Pow2(t.Z) /\ t.Y < Pow2(t.Z) }

\* what the callers of a run do: the deepest zoom they use and how many calls they make
SeqLoad == [zoom |-> MaxZoom, adds |-> MaxAdds, reads |-> MaxReads]
ConcLoad == [zoom |-> ConcMaxZoom, adds |-> ConcMaxAdds, reads |-> MaxReads]

Bit(n, b) == (n \div Pow2(b)) % 2

QuadKey(t) == [i \in 1..t.Z |-> Bit(t.X, t.Z - i) + 2 * Bit(t.Y, t.Z - i)]

RECURSIVE CoordOf(_, _, _)
\* the coordinate spelled by bit `sel` (0: X, 1: Y) of the digits qk[i..]
CoordOf(qk, sel, i) ==
  IF i > Len(qk) THEN 0
  ELSE Bit(qk[i], sel) * Pow2(Len(qk) - i) + CoordOf(qk, sel, i + 1)

TileFromQuadKey(qk) == [Z |-> Len(qk), X |-> CoordOf(qk, 0, 1), Y |-> CoordOf(qk, 1, 1)]

\* ------------------------------------------------------ string primitives
\* strings.HasPrefix(s, p)
HasPrefix(s, p) == Len(p) <= Len(s) /\ SubSeq(s, 1, Len(p)) = p

\* Go's a < b on strings: byte-wise lexicographic, a proper prefix is smaller
StrLess(a, b) ==
  \E i \in 1..Len(b) :
    /\ \A j \in 1..(i - 1) : j <= Len(a) /\ a[j] = b[j]
    /\ (i > Len(a) \/ a[i] < b[i])

\* q[:z]
Slice(q, z) == SubSeq(q, 1, z)

\* ------------------------------------------------------------- byQk, sort
\* a comparator with its operands the wrong way round
Greater(q, i, j) == StrLess(q[j].qk, q[i].qk)

\* byQk.Less(i, j), 1-based
Less(q, i, j) == StrLess(q[i].qk, q[j].qk)

\* a swap that stores only one of the two entries
SwapOverwrite(q, i, j) == [q EXCEPT ![i] = q[j]]

\* byQk.Swap(i, j)
Swap(q, i, j) == [q EXCEPT ![i] = q[j], ![j] = q[i]]

RECURSIVE InsertDown(_, _)
InsertDown(q, j) ==
  IF j > 1 /\ Less(q, j, j - 1) THEN InsertDown(Swap(q, j, j - 1), j - 1) ELSE q

RECURSIVE InsertionSort(_, _)
InsertionSort(q, i) ==
  IF i > Len(q) THEN q ELSE InsertionSort(InsertDown(q, i), i + 1)

\* a sort that leaves the entries as they are
Unsorted(q) == q

\* sort.Sort(byQk(idx.keys)): below 12 elements sort.Sort is an insertion sort
SortKeys(q) == InsertionSort(q, 2)

\* ----------------------------------------------------------------- search
\* a search for the first key strictly above qk
SearchPredStrict(q, qk, h) == StrLess(qk, q[h + 1].qk)

\* the predicate of idx.search: idx.keys[h].qk >= qk (h is 0-based)
SearchPred(q, qk, h) == ~StrLess(q[h + 1].qk, qk)

RECURSIVE BinSearch(_, _, _, _)
\* sort.Search: the loop over [i, j) with h = (i+j)/2
BinSearch(q, qk, i, j) ==
  IF i < j
  THEN LET h == (i + j) \div 2
       IN  IF ~SearchPred(q, qk, h)
           THEN BinSearch(q, qk, h + 1, j)
           ELSE BinSearch(q, qk, i, h)
  ELSE i

Search(q, qk) == BinSearch(q, qk, 0, Len(q))

\* ----------------------------------------------------------------- Values
RECURSIVE ScanLoop(_, _, _, _, _, _)
\* for i < len(idx.keys) && strings.HasPrefix(n.qk, qk) { n = idx.keys[i]; ... ; i++ }
ScanLoop(q, vs, qk, i, n, acc) ==
  IF i < Len(q) /\ HasPrefix(n.qk, qk)
  THEN ScanLoop(q, vs, qk, i + 1, q[i + 1], Append(acc, vs[q[i + 1].v + 1]))
  ELSE acc

\* a scan that takes the entry the search lands on before it tests it
ValuesScanUntested(q, vs, qk) ==
  LET i == Search(q, qk)
  IN  IF i >= Len(q) THEN << >>
      ELSE ScanLoop(q, vs, qk, i + 1, q[i + 1], << vs[q[i + 1].v + 1] >>)

\* the body of Values under the read lock
ValuesScan(q, vs, qk) ==
  LET i == Search(q, qk)
  IN  IF i >= Len(q) THEN << >> ELSE ScanLoop(q, vs, qk, i, q[i + 1], << >>)

RECURSIVE SearchProbes(_, _, _, _)
\* the indices h (0-based) at which sort.Search evaluates idx.keys[h]
SearchProbes(q, qk, i, j) ==
  IF i < j
  THEN LET h == (i + j) \div 2
       IN  {h} \cup (IF h >= Len(q) THEN {}
                     ELSE IF ~SearchPred(q, qk, h)
                          THEN SearchProbes(q, qk, h + 1, j)
                          ELSE SearchProbes(q, qk, i, h))
  ELSE {}

RECURSIVE LoopReads(_, _, _, _)
\* the indices i (0-based) at which the loop of Values reads n = idx.keys[i]
LoopReads(q, qk, i, n) ==
  IF i < Len(q) /\ HasPrefix(n.qk, qk)
  THEN << i >> \o LoopReads(q, qk, i + 1, q[i + 1])
  ELSE << >>

\* every index at which Values reads idx.keys: the probes of the search, the
\* n := idx.keys[i] before the loop, and the reads of the loop
KeyReads(q, qk) ==
  LET i == Search(q, qk)
      r == IF i >= Len(q) THEN << >> ELSE LoopReads(q, qk, i, q[i + 1])
  IN  SearchProbes(q, qk, 0, Len(q))
        \cup (IF i >= Len(q) THEN {} ELSE {i} \cup { r[k] : k \in DOMAIN r })

\* the indices n.v at which Values reads idx.values, in order
ValueReads(q, qk) ==
  LET i == Search(q, qk)
      r == IF i >= Len(q) THEN << >> ELSE LoopReads(q, qk, i, q[i + 1])
  IN  [k \in 1..Len(r) |-> q[r[k] + 1].v]

\* -------------------------------------------------------------- TileRange
RECURSIVE EmitPair(_, _, _, _)
\* the inner loop of the pairwise pass for entry key qk with successor key n
EmitPair(qk, n, z, zmax) ==
  IF z <= zmax /\ z <= Len(qk)
  THEN (IF ~HasPrefix(n, Slice(qk, z)) THEN << TileFromQuadKey(Slice(qk, z)) >> ELSE << >>)
       \o EmitPair(qk, n, z + 1, zmax)
  ELSE << >>

RECURSIVE EmitLastOffByOne(_, _, _)
\* a loop over the final entry that runs one zoom too far
EmitLastOffByOne(qk, z, zmax) ==
  IF z <= zmax + 1 /\ z <= Len(qk)
  THEN << TileFromQuadKey(Slice(qk, z)) >> \o EmitLastOffByOne(qk, z + 1, zmax)
  ELSE << >>

RECURSIVE EmitLast(_, _, _)
\* the loop over the final entry
EmitLast(qk, z, zmax) ==
  IF z <= zmax /\ z <= Len(qk)
  THEN << TileFromQuadKey(Slice(qk, z)) >> \o EmitLast(qk, z + 1, zmax)
  ELSE << >>

RECURSIVE EmitPairs(_, _, _, _)
\* for i := 0; i < len(idx.keys)-1; i++ (i is 0-based)
EmitPairs(q, i, zmin, zmax) ==
  IF i < Len(q) - 1
  THEN EmitPair(q[i + 1].qk, q[i + 2].qk, zmin, zmax) \o EmitPairs(q, i + 1, zmin, zmax)
  ELSE << >>

\* a producer that stops after the pairwise pass
TileRangeEmitNoLast(q, zmin, zmax) == EmitPairs(q, 0, zmin, zmax)

\* every send of the producer, in order, over a non-empty entry slice
TileRangeEmit(q, zmin, zmax) ==
  EmitPairs(q, 0, zmin, zmax) \o EmitLast(q[Len(q)].qk, zmin, zmax)

\* ------------------------------------------------------------------ state
VARIABLES
  keys,      \* idx.keys: sequence of [qk, v]
  values,    \* idx.values
  sorted,    \* idx.sorted
  writer,    \* the caller holding idx.Lock(), 0 when none
  readers,   \* the goroutines holding idx.RLock(): <<"c", t>> a caller, <<"p", t>> a producer
  pc,        \* position of each caller goroutine
  op,        \* the operation each caller is in
  arg,       \* its arguments
  vals,      \* the slice a Values call is about to return
  recv,      \* the tiles a caller has received from its TileRange channel
  ppc,       \* position of the producer goroutine spawned by each caller's TileRange
  prange,    \* zmin, zmax captured by that producer
  pend,      \* the sends that producer still has to make
  chan,      \* the buffer of that caller's TileRange channel
  stale,     \* whether a caller's unsynchronised read of idx.sorted may still see the
             \* value it had before the last write
  added,     \* history: the (tile, val) of every Add, in the order they took effect
  nextVal,   \* history: number of Add calls made (each passes a fresh value)
  nReads,    \* history: number of Values and TileRange calls made
  snap,      \* history: how many Adds had returned when a Values call was made
  panicked   \* an unrecovered panic has ended the program

vars == << keys, values, sorted, writer, readers, pc, op, arg, vals, recv,
           ppc, prange, pend, chan, stale, added, nextVal, nReads, snap, panicked >>

RootTile == [Z |-> 0, X |-> 0, Y |-> 0]
NoArg == [tile |-> RootTile, val |-> 0, zmin |-> 0, zmax |-> 0]

\* the zero value of TileIndex, no goroutine running
Init ==
  /\ keys = << >> /\ values = << >> /\ sorted = FALSE
  /\ writer = 0 /\ readers = {}
  /\ pc = [t \in Threads |-> "idle"]
  /\ op = [t \in Threads |-> "none"]
  /\ arg = [t \in Threads |-> NoArg]
  /\ vals = [t \in Threads |-> << >>]
  /\ recv = [t \in Threads |-> << >>]
  /\ ppc = [t \in Threads |-> "none"]
  /\ prange = [t \in Threads |-> << 0, 0 >>]
  /\ pend = [t \in Threads |-> << >>]
  /\ chan = [t \in Threads |-> << >>]
  /\ stale = [t \in Threads |-> FALSE]
  /\ added = << >> /\ nextVal = 0 /\ nReads = 0
  /\ snap = [t \in Threads |-> 0]
  /\ panicked = FALSE

\* --------------------------------------------------------------- RWMutex
\* a caller blocked in idx.Lock(): a pending writer excludes new readers
WriterWaiting == \E u \in Threads : pc[u] \in {"alock", "slock"}

\* an exclusive lock that does not wait for the readers
CanLockOverReaders == writer = 0

CanLock == writer = 0 /\ readers = {}
CanRLock == writer = 0 /\ ~WriterWaiting

\* a lock acquisition synchronises: the caller then sees the latest idx.sorted
Synced(t) == [stale EXCEPT ![t] = FALSE]

\* writing idx.sorted under the lock: until they synchronise, the others may
\* still read the value it replaces
Overwrite(t, new) ==
  [u \in Threads |-> IF sorted = new THEN stale[u] ELSE u # t]

\* ------------------------------------------------------------------- Add
\* an entry whose index is the length of the store, not the place of the value
NewKeyPastEnd(vs, tile) == [qk |-> QuadKey(tile), v |-> Len(vs)]

\* qkey{qk: t.QuadKey(), v: len(idx.values) - 1}, vs the value store after the append
NewKey(vs, tile) == [qk |-> QuadKey(tile), v |-> Len(vs) - 1]

\* Add is called with a tile and a fresh value, and calls idx.Lock()
AddCall(t, W) ==
  /\ ~panicked
  /\ pc[t] = "idle" /\ nextVal < W.adds
  /\ \E tile \in TilesTo(W.zoom) :
       arg' = [arg EXCEPT ![t] = [NoArg EXCEPT !.tile = tile, !.val = nextVal + 1]]
  /\ nextVal' = nextVal + 1
  /\ pc' = [pc EXCEPT ![t] = "alock"]
  /\ op' = [op EXCEPT ![t] = "Add"]
  /\ UNCHANGED << keys, values, sorted, writer, readers, vals, recv, ppc, prange,
                  pend, chan, stale, added, nReads, snap, panicked >>

\* idx.Lock() returns
AddLock(t) ==
  /\ ~panicked
  /\ pc[t] = "alock" /\ CanLock
  /\ writer' = t
  /\ stale' = Synced(t)
  /\ pc' = [pc EXCEPT ![t] = "acs"]
  /\ UNCHANGED << keys, values, sorted, readers, op, arg, vals, recv, ppc, prange,
                  pend, chan, added, nextVal, nReads, snap, panicked >>

\* the appends, the flag, the deferred idx.Unlock() and the return
AddBody(t) ==
  /\ ~panicked
  /\ pc[t] = "acs"
  /\ values' = Append(values, arg[t].val)
  /\ keys' = Append(keys, NewKey(values', arg[t].tile))
  /\ sorted' = FALSE
  /\ stale' = Overwrite(t, FALSE)
  /\ writer' = 0
  /\ added' = Append(added, [tile |-> arg[t].tile, val |-> arg[t].val])
  /\ pc' = [pc EXCEPT ![t] = "idle"]
  /\ op' = [op EXCEPT ![t] = "none"]
  /\ arg' = [arg EXCEPT ![t] = NoArg]
  /\ UNCHANGED << readers, vals, recv, ppc, prange, pend, chan, nextVal, nReads, snap, panicked >>

\* ------------------------------------------------------------------ sort
AfterSort(t) == IF op[t] = "Values" THEN "rlock" ELSE "spawn"

\* if !idx.sorted { idx.Lock() ...: the flag is read without the lock
SortCheck(t) ==
  /\ ~panicked
  /\ pc[t] = "sort"
  /\ \E b \in {sorted} \cup (IF stale[t] THEN {~sorted} ELSE {}) :
       pc' = [pc EXCEPT ![t] = IF b THEN AfterSort(t) ELSE "slock"]
  /\ UNCHANGED << keys, values, sorted, writer, readers, op, arg, vals, recv, ppc,
                  prange, pend, chan, stale, added, nextVal, nReads, snap, panicked >>

SortLock(t) ==
  /\ ~panicked
  /\ pc[t] = "slock" /\ CanLock
  /\ writer' = t
  /\ stale' = Synced(t)
  /\ pc' = [pc EXCEPT ![t] = "scs"]
  /\ UNCHANGED << keys, values, sorted, readers, op, arg, vals, recv, ppc, prange,
                  pend, chan, added, nextVal, nReads, snap, panicked >>

\* a sort that forgets to set the flag
SortBodyNoFlag(t) ==
  /\ ~panicked
  /\ pc[t] = "scs"
  /\ keys' = SortKeys(keys)
  /\ writer' = 0
  /\ pc' = [pc EXCEPT ![t] = AfterSort(t)]
  /\ UNCHANGED << values, sorted, stale, readers, op, arg, vals, recv, ppc, prange,
                  pend, chan, added, nextVal, nReads, snap, panicked >>

\* sort.Sort(byQk(idx.keys)); idx.sorted = true; idx.Unlock()
SortBody(t) ==
  /\ ~panicked
  /\ pc[t] = "scs"
  /\ keys' = SortKeys(keys)
  /\ sorted' = TRUE
  /\ stale' = Overwrite(t, TRUE)
  /\ writer' = 0
  /\ pc' = [pc EXCEPT ![t] = AfterSort(t)]
  /\ UNCHANGED << values, readers, op, arg, vals, recv, ppc, prange, pend, chan,
                  added, nextVal, nReads, snap, panicked >>

\* ---------------------------------------------------------------- Values
ValuesCall(t, W) ==
  /\ ~panicked
  /\ pc[t] = "idle" /\ nReads < W.reads
  /\ nReads' = nReads + 1
  /\ \E tile \in TilesTo(W.zoom) : arg' = [arg EXCEPT ![t] = [NoArg EXCEPT !.tile = tile]]
  /\ snap' = [snap EXCEPT ![t] = Len(values)]
  /\ pc' = [pc EXCEPT ![t] = "sort"]
  /\ op' = [op EXCEPT ![t] = "Values"]
  /\ UNCHANGED << keys, values, sorted, writer, readers, vals, recv, ppc, prange,
                  pend, chan, stale, added, nextVal, panicked >>

\* idx.RLock() returns
ValuesRLock(t) ==
  /\ ~panicked
  /\ pc[t] = "rlock" /\ CanRLock
  /\ readers' = readers \cup {<< "c", t >>}
  /\ stale' = Synced(t)
  /\ pc' = [pc EXCEPT ![t] = "scan"]
  /\ UNCHANGED << keys, values, sorted, writer, op, arg, vals, recv, ppc, prange,
                  pend, chan, added, nextVal, nReads, snap, panicked >>

\* a scan that returns without the deferred idx.RUnlock()
ValuesReadKeepLock(t) ==
  /\ ~panicked
  /\ pc[t] = "scan"
  /\ vals' = [vals EXCEPT ![t] = ValuesScan(keys, values, QuadKey(arg[t].tile))]
  /\ pc' = [pc EXCEPT ![t] = "ret"]
  /\ UNCHANGED << keys, values, sorted, writer, readers, op, arg, recv, ppc, prange,
                  pend, chan, stale, added, nextVal, nReads, snap, panicked >>

\* the search, the scan and the deferred idx.RUnlock()
ValuesRead(t) ==
  /\ ~panicked
  /\ pc[t] = "scan"
  /\ vals' = [vals EXCEPT ![t] = ValuesScan(keys, values, QuadKey(arg[t].tile))]
  /\ readers' = readers \ {<< "c", t >>}
  /\ pc' = [pc EXCEPT ![t] = "ret"]
  /\ UNCHANGED << keys, values, sorted, writer, op, arg, recv, ppc, prange, pend,
                  chan, stale, added, nextVal, nReads, snap, panicked >>

\* the caller takes the result
ValuesReturn(t) ==
  /\ ~panicked
  /\ pc[t] = "ret"
  /\ pc' = [pc EXCEPT ![t] = "idle"]
  /\ op' = [op EXCEPT ![t] = "none"]
  /\ arg' = [arg EXCEPT ![t] = NoArg]
  /\ vals' = [vals EXCEPT ![t] = << >>]
  /\ snap' = [snap EXCEPT ![t] = 0]
  /\ UNCHANGED << keys, values, sorted, writer, readers, recv, ppc, prange, pend,
                  chan, stale, added, nextVal, nReads, panicked >>

\* ------------------------------------------------------------- TileRange
\* a zoom range with 0 <= zmin <= zmax, possibly deeper than every key.
\* One producer per caller is modelled: a caller calls again once its last one ended.
TileRangeCall(t, W) ==
  /\ ~panicked
  /\ pc[t] = "idle" /\ ppc[t] = "none" /\ nReads < W.reads
  /\ nReads' = nReads + 1
  /\ \E zmin \in 0..W.zoom : \E zmax \in zmin..W.zoom :
       arg' = [arg EXCEPT ![t] = [NoArg EXCEPT !.zmin = zmin, !.zmax = zmax]]
  /\ pc' = [pc EXCEPT ![t] = "sort"]
  /\ op' = [op EXCEPT ![t] = "TileRange"]
  /\ UNCHANGED << keys, values, sorted, writer, readers, vals, recv, ppc, prange,
                  pend, chan, stale, added, nextVal, snap, panicked >>

\* make(chan Tile, 1<<10); go func() {...}(); return tiles
TileRangeSpawn(t) ==
  /\ ~panicked
  /\ pc[t] = "spawn"
  /\ chan' = [chan EXCEPT ![t] = << >>]
  /\ recv' = [recv EXCEPT ![t] = << >>]
  /\ ppc' = [ppc EXCEPT ![t] = "p_rlock"]
  /\ prange' = [prange EXCEPT ![t] = << arg[t].zmin, arg[t].zmax >>]
  /\ pc' = [pc EXCEPT ![t] = "drain"]
  /\ UNCHANGED << keys, values, sorted, writer, readers, op, arg, vals, pend, stale,
                  added, nextVal, nReads, snap, panicked >>

\* the producer's idx.RLock() returns and it runs up to its first send; the
\* entry slice cannot change while it holds the lock, so its sends are fixed here.
\* On an empty slice idx.keys[len(idx.keys)-1] is out of range: the goroutine panics.
ProducerRLock(t) ==
  /\ ~panicked
  /\ ppc[t] = "p_rlock" /\ CanRLock
  /\ readers' = readers \cup {<< "p", t >>}
  /\ IF Len(keys) = 0
     THEN /\ panicked' = TRUE
          /\ ppc' = [ppc EXCEPT ![t] = "panic"]
          /\ pend' = pend
     ELSE /\ panicked' = panicked
          /\ ppc' = [ppc EXCEPT ![t] = "p_send"]
          /\ pend' = [pend EXCEPT ![t] = TileRangeEmit(keys, prange[t][1], prange[t][2])]
  /\ UNCHANGED << keys, values, sorted, writer, pc, op, arg, vals, recv, prange,
                  chan, stale, added, nextVal, nReads, snap >>

\* tiles <- TileFromQuadKey(q[:z]): blocks while the buffer is full
ProducerSend(t) ==
  /\ ~panicked
  /\ ppc[t] = "p_send" /\ pend[t] # << >> /\ Len(chan[t]) < ChanCap
  /\ chan' = [chan EXCEPT ![t] = Append(chan[t], Head(pend[t]))]
  /\ pend' = [pend EXCEPT ![t] = Tail(pend[t])]
  /\ UNCHANGED << keys, values, sorted, writer, readers, pc, op, arg, vals, recv,
                  ppc, prange, stale, added, nextVal, nReads, snap, panicked >>

\* defer idx.RUnlock()
ProducerRUnlock(t) ==
  /\ ~panicked
  /\ ppc[t] = "p_send" /\ pend[t] = << >>
  /\ readers' = readers \ {<< "p", t >>}
  /\ ppc' = [ppc EXCEPT ![t] = "p_close"]
  /\ UNCHANGED << keys, values, sorted, writer, pc, op, arg, vals, recv, prange,
                  pend, chan, stale, added, nextVal, nReads, snap, panicked >>

\* defer close(tiles)
ProducerClose(t) ==
  /\ ~panicked
  /\ ppc[t] = "p_close"
  /\ ppc' = [ppc EXCEPT ![t] = "none"]
  /\ prange' = [prange EXCEPT ![t] = << 0, 0 >>]
  /\ UNCHANGED << keys, values, sorted, writer, readers, pc, op, arg, vals, recv,
                  pend, chan, stale, added, nextVal, nReads, snap, panicked >>

\* the consumer receives a tile
Recv(t) ==
  /\ ~panicked
  /\ pc[t] = "drain" /\ chan[t] # << >>
  /\ recv' = [recv EXCEPT ![t] = Append(recv[t], Head(chan[t]))]
  /\ chan' = [chan EXCEPT ![t] = Tail(chan[t])]
  /\ UNCHANGED << keys, values, sorted, writer, readers, pc, op, arg, vals, ppc,
                  prange, pend, stale, added, nextVal, nReads, snap, panicked >>

\* the consumer finds the channel closed and empty
RecvClosed(t) ==
  /\ ~panicked
  /\ pc[t] = "drain" /\ chan[t] = << >> /\ ppc[t] = "none"
  /\ pc' = [pc EXCEPT ![t] = "closed"]
  /\ UNCHANGED << keys, values, sorted, writer, readers, op, arg, vals, recv, ppc,
                  prange, pend, chan, stale, added, nextVal, nReads, snap, panicked >>

\* the consumer is done with the tiles it drained
TileRangeDone(t) ==
  /\ ~panicked
  /\ pc[t] = "closed"
  /\ pc' = [pc EXCEPT ![t] = "idle"]
  /\ op' = [op EXCEPT ![t] = "none"]
  /\ arg' = [arg EXCEPT ![t] = NoArg]
  /\ recv' = [recv EXCEPT ![t] = << >>]
  /\ UNCHANGED << keys, values, sorted, writer, readers, vals, ppc, prange, pend,
                  chan, stale, added, nextVal, nReads, snap, panicked >>

\* the consumer stops receiving before the channel is closed
Abandon(t) ==
  /\ ~panicked
  /\ pc[t] = "drain" /\ ppc[t] # "none"
  /\ pc' = [pc EXCEPT ![t] = "idle"]
  /\ op' = [op EXCEPT ![t] = "none"]
  /\ arg' = [arg EXCEPT ![t] = NoArg]
  /\ recv' = [recv EXCEPT ![t] = << >>]
  /\ UNCHANGED << keys, values, sorted, writer, readers, vals, ppc, prange, pend,
                  chan, stale, added, nextVal, nReads, snap, panicked >>

\* a producer whose consumer has stopped receiving
Abandoned(t) == ppc[t] # "none" /\ pc[t] # "drain"

\* --------------------------------------------------------- specifications
CallerStep(t, W) ==
  \/ AddCall(t, W) \/ AddLock(t) \/ AddBody(t)
  \/ SortCheck(t) \/ SortLock(t) \/ SortBody(t)
  \/ ValuesCall(t, W) \/ ValuesRLock(t) \/ ValuesRead(t) \/ ValuesReturn(t)
  \/ TileRangeCall(t, W) \/ TileRangeSpawn(t)
  \/ Recv(t) \/ RecvClosed(t) \/ TileRangeDone(t) \/ Abandon(t)

ProducerStep(t) ==
  \/ ProducerRLock(t) \/ ProducerSend(t) \/ ProducerRUnlock(t) \/ ProducerClose(t)

\* every goroutine that can step may; an unrecovered panic has ended them all
Next == \E t \in Threads : CallerStep(t, ConcLoad) \/ ProducerStep(t)

\* any number of callers share the index
Spec == Init /\ [][Next]_vars

\* a single caller: none of its operations runs concurrently with another
SeqNext == CallerStep(1, SeqLoad) \/ ProducerStep(1)

SeqSpec == Init /\ [][SeqNext]_vars

\* the steps of a caller inside Add, Values or TileRange, up to the return
InCallStep(t) ==
  \/ AddLock(t) \/ AddBody(t)
  \/ SortCheck(t) \/ SortLock(t) \/ SortBody(t)
  \/ ValuesRLock(t) \/ ValuesRead(t) \/ ValuesReturn(t)
  \/ TileRangeSpawn(t)

\* the Go scheduler runs every runnable goroutine: a producer that can step does,
\* and so does a caller inside a call; whether a caller makes another call or
\* keeps receiving is up to it
FairSeqSpec == SeqSpec /\ WF_vars(ProducerStep(1)) /\ WF_vars(InCallStep(1))

\* the steps of a consumer that ranges over its channel until it is closed
DrainStep(t) == Recv(t) \/ RecvClosed(t) \/ TileRangeDone(t)

\* a caller whose TileRange consumers always drain to the close
DrainingCallerStep(t, W) ==
  \/ AddCall(t, W) \/ AddLock(t) \/ AddBody(t)
  \/ SortCheck(t) \/ SortLock(t) \/ SortBody(t)
  \/ ValuesCall(t, W) \/ ValuesRLock(t) \/ ValuesRead(t) \/ ValuesReturn(t)
  \/ TileRangeCall(t, W) \/ TileRangeSpawn(t)
  \/ Recv(t) \/ RecvClosed(t) \/ TileRangeDone(t)

DrainNext == \E t \in Threads : DrainingCallerStep(t, ConcLoad) \/ ProducerStep(t)

\* any number of callers under fair scheduling: every runnable goroutine runs, be
\* it a producer, a caller inside a call or a consumer in its receive loop
FairDrainSpec ==
  /\ Init /\ [][DrainNext]_vars
  /\ \A t \in Threads :
       WF_vars(ProducerStep(t)) /\ WF_vars(InCallStep(t)) /\ WF_vars(DrainStep(t))

\* ------------------------------------------------------------ properties
AsSet(s) == { s[i] : i \in 1..Len(s) }

\* non-decreasing key order
IsSorted(q) == \A i \in 1..(Len(q) - 1) : ~StrLess(q[i + 1].qk, q[i].qk)

\* the quadkey of the i-th Add that took effect
AddedKey(i) == QuadKey(added[i].tile)

\* the quadkey a Values call asks for
Query(t) == QuadKey(arg[t].tile)

\* a Values call has its result
Returning(t) == pc[t] = "ret"

\* C1: with a single caller, the result of Values(t) holds every value added at a
\* tile whose quadkey has QuadKey(t) as a prefix, t itself included.
C1_PrefixAggregation ==
  \A t \in Threads : Returning(t) =>
    \A i \in 1..Len(added) :
      HasPrefix(AddedKey(i), Query(t)) => added[i].val \in AsSet(vals[t])

\* a Values call that returned a value added at the tile and one added below it
C1_Witness ==
  \E t \in Threads : Returning(t) /\
    \E i, j \in 1..Len(added) :
      /\ AddedKey(i) = Query(t)
      /\ HasPrefix(AddedKey(j), Query(t)) /\ AddedKey(j) # Query(t)
      /\ {added[i].val, added[j].val} \subseteq AsSet(vals[t])

\* C2: the result of Values(t) holds no value added at a tile whose quadkey does
\* not have QuadKey(t) as a prefix.
C2_NoDownwardAggregation ==
  \A t \in Threads : Returning(t) =>
    \A i \in 1..Len(added) :
      added[i].val \in AsSet(vals[t]) => HasPrefix(AddedKey(i), Query(t))

\* the length-z prefixes of the added keys of length >= z, for z in [zmin, zmax]
PrefixesInRange(zmin, zmax) ==
  UNION { { Slice(AddedKey(i), z) : z \in { y \in zmin..zmax : y <= Len(AddedKey(i)) } } :
          i \in 1..Len(added) }

\* C3: with a single caller and a non-empty index, the tiles drained from
\* TileRange(zmin, zmax) up to the close are exactly the distinct length-z prefixes,
\* z in [zmin, zmax], of the added keys of length >= z, each once.
C3_RangeCoverage ==
  \A t \in Threads : (pc[t] = "closed" /\ Len(added) > 0) =>
    /\ { QuadKey(recv[t][i]) : i \in 1..Len(recv[t]) }
         = PrefixesInRange(arg[t].zmin, arg[t].zmax)
    /\ \A i, j \in 1..Len(recv[t]) : i # j => recv[t][i] # recv[t][j]
    /\ \A i \in 1..Len(recv[t]) : recv[t][i].Z \in arg[t].zmin..arg[t].zmax

\* a drained range of two zooms over an index holding one key twice and a sibling
C3_Witness ==
  \E t \in Threads :
    /\ pc[t] = "closed" /\ arg[t].zmin < arg[t].zmax /\ Len(recv[t]) >= 3
    /\ \E i, j, k \in 1..Len(added) :
         /\ i # j /\ AddedKey(i) = AddedKey(j)
         /\ AddedKey(k) # AddedKey(i) /\ Len(AddedKey(k)) = Len(AddedKey(i))
         /\ Len(AddedKey(i)) > 1
         /\ Slice(AddedKey(k), 1) = Slice(AddedKey(i), 1)

\* C4: on an index nothing was added to, Values returns the empty slice, the
\* TileRange channel is closed without a tile, and neither operation panics.
C4_EmptyIndexNeverFails ==
  Len(added) = 0 =>
    /\ ~panicked
    /\ \A t \in Threads :
         /\ Returning(t) => vals[t] = << >>
         /\ chan[t] = << >> /\ recv[t] = << >>

\* C5: whenever a goroutine holds the read lock for its scan, the entry slice is
\* in non-decreasing key order.
C5_SortedWhileReading == readers # {} => IsSorted(keys)

\* C6: Values(t) returns every value with a matching key whose Add had returned
\* before the Values call was made.
C6_NoLostValue ==
  \A t \in Threads : Returning(t) =>
    \A i \in 1..snap[t] :
      HasPrefix(AddedKey(i), Query(t)) => added[i].val \in AsSet(vals[t])

\* C7: after n Adds have taken effect, in any interleaving with reads and sorts,
\* there are n entries and n values, the entries' value indices are 0..n-1, and
\* the entry with index v holds the key, and the store at v the value, of one Add.
C7_IndexNotCorrupted ==
  /\ Len(keys) = Len(added) /\ Len(values) = Len(added)
  /\ { keys[i].v : i \in 1..Len(keys) } = 0..(Len(added) - 1)
  /\ \A i \in 1..Len(keys) :
       LET j == keys[i].v + 1
       IN  /\ j \in 1..Len(added)
           /\ values[j] = added[j].val
           /\ keys[i].qk = AddedKey(j)

\* every Add of the run has taken effect, out of call order, and a sort moved entries
C7_Witness ==
  /\ Len(added) = ConcLoad.adds /\ sorted
  /\ values[1] # 1
  /\ keys[1].v # 0

\* C8: once the consumer of a TileRange channel has stopped receiving, the
\* producer's read lock is eventually released.
C8_LockReleasedAfterAbandon ==
  \A t \in Threads :
    Abandoned(t) ~> (panicked \/ ppc[t] \in {"p_close", "none"})

\* the channel of a caller's TileRange has been returned and is not closed
ChannelOpen(t) == ppc[t] \in {"p_rlock", "p_send", "p_close"}

\* C9: while the channel a TileRange returned is open, its producer holds the
\* read lock.
C9_ReadLockWhileOpen ==
  \A t \in Threads : ChannelOpen(t) => << "p", t >> \in readers

\* the index after the Adds of `hist` in the order perm, then the lazy sort
RECURSIVE AddAll(_, _, _)
AddAll(hist, perm, i) ==
  IF i = 0 THEN [keys |-> << >>, values |-> << >>]
  ELSE LET idx == AddAll(hist, perm, i - 1)
           vs == Append(idx.values, hist[perm[i]].val)
       IN  [keys |-> Append(idx.keys, NewKey(vs, hist[perm[i]].tile)), values |-> vs]

Orders(n) ==
  { f \in [1..n -> 1..n] : \A a, b \in 1..n : a # b => f[a] # f[b] }

ValuesAfter(hist, perm, qk) ==
  LET idx == AddAll(hist, perm, Len(hist))
  IN  AsSet(ValuesScan(SortKeys(idx.keys), idx.values, qk))

\* C10: the set of values Values(t) returns is the same whatever the order the
\* (tile, value) pairs were added in.
C10_InsertOrderIndependent ==
  \A t \in Threads : Returning(t) =>
    \A perm \in Orders(Len(added)) :
      ValuesAfter(added, perm, Query(t)) = AsSet(vals[t])

\* an Add returns: its critical section ends
AddReturns(t) == pc[t] = "acs" /\ pc'[t] = "idle"

\* C11: whenever no goroutine is inside the critical section of Add or of sort, a
\* true sorted flag means the entry slice is in non-decreasing key order; and every
\* Add that returns leaves the flag false.
C11_SortedFlag ==
  /\ [](writer = 0 /\ sorted => IsSorted(keys))
  /\ [][\A t \in Threads : AddReturns(t) => ~sorted']_vars

\* the flag is true over entries a sort has reordered, and a reader scans them
C11_Witness ==
  /\ writer = 0 /\ sorted /\ Len(keys) >= 2
  /\ keys[1].v > keys[2].v
  /\ \E t \in Threads : pc[t] = "scan"

\* the index the Adds build in the order they took effect, before any sort
Built == AddAll(added, [i \in 1..Len(added) |-> i], Len(added))

\* a caller has drained its TileRange channel to the close
Drained(t) == pc[t] = "closed"

\* C12: with a single caller, a read's result is the one the Adds so far determine,
\* however many reads came before it, and the read leaves the entries in their
\* sorted order with the flag set; while the flag is set and no Add takes effect,
\* no step changes the entry slice, the store or the flag, so a repeated read
\* returns the same result and only the first read after an Add reorders.
C12_IdempotentReads ==
  /\ [](\A t \in Threads :
          /\ Returning(t) =>
               /\ sorted /\ keys = SortKeys(Built.keys)
               /\ vals[t] = ValuesScan(SortKeys(Built.keys), Built.values, Query(t))
          /\ (Drained(t) /\ Len(added) > 0) =>
               /\ sorted /\ keys = SortKeys(Built.keys)
               /\ recv[t] = TileRangeEmit(SortKeys(Built.keys), arg[t].zmin, arg[t].zmax))
  /\ [][(sorted /\ Len(added') = Len(added)) =>
          (keys' = keys /\ values' = values /\ sorted')]_vars

\* a Values call made while the flag is still set by an earlier read's sort, over
\* entries that sort moved: no Add took effect in between
C12_Witness ==
  \E t \in Threads :
    /\ pc[t] = "sort" /\ op[t] = "Values" /\ sorted
    /\ Len(keys) >= 2 /\ keys[1].v # 0

\* no added key equals or extends the key a Values call asks for
NoMatch(t) == \A i \in 1..Len(added) : ~HasPrefix(AddedKey(i), Query(t))

\* C13: with a single caller, when no added key equals or extends QuadKey(t),
\* Values(t) returns the empty slice: when the search lands past the end of the
\* entry slice and when it lands on an entry whose key lacks the prefix.
C13_NoMatchIsEmpty ==
  \A t \in Threads : (Returning(t) /\ NoMatch(t)) => vals[t] = << >>

\* a Values call without a match whose search landed on an entry, after one whose
\* key is smaller than the one asked for
C13_Witness ==
  \E t \in Threads :
    /\ Returning(t) /\ NoMatch(t) /\ vals[t] = << >>
    /\ Search(keys, Query(t)) \in 1..(Len(keys) - 1)

\* a Values call without a match whose search landed past the end of the entries
C13_PastEnd ==
  \E t \in Threads :
    /\ Returning(t) /\ NoMatch(t) /\ vals[t] = << >>
    /\ Len(keys) >= 2 /\ Search(keys, Query(t)) = Len(keys)

\* the tiles a producer has sent or has still to send
Emitted(t) == Len(recv[t]) + Len(chan[t]) + Len(pend[t])

\* a producer has returned: read lock released, channel closed
ProducerEnded(t) == ppc[t] = "none" /\ << "p", t >> \notin readers

\* C14: over a non-empty index of N entries a TileRange(zmin, zmax) producer sends
\* at most (zmax - zmin + 1) * N tiles, and when its consumer keeps receiving it
\* eventually releases its read lock and closes the channel.
C14_FiniteAndCloses ==
  /\ [](\A t \in Threads : ppc[t] = "p_send" =>
          Emitted(t) <= (prange[t][2] - prange[t][1] + 1) * Len(keys))
  /\ \A t \in Threads : (ppc[t] = "p_rlock" /\ Len(keys) > 0) ~> ProducerEnded(t)

\* a producer that had to wait for its consumer has ended, every tile received
C14_Witness ==
  \E t \in Threads :
    /\ pc[t] = "closed" /\ ProducerEnded(t)
    /\ Len(recv[t]) > ChanCap /\ chan[t] = << >>

\* new is old with one element appended
Appended(old, new) == Len(new) = Len(old) + 1 /\ SubSeq(new, 1, Len(old)) = old

\* new holds the entries of old, no more and no fewer, in some order
SameEntries(old, new) == Len(new) = Len(old) /\ AsSet(new) = AsSet(old)

\* a step of a Values or TileRange call after it is made: the caller's, its
\* producer's or its consumer's
ReadStep(t) ==
  \/ SortCheck(t) \/ SortLock(t) \/ SortBody(t)
  \/ ValuesRLock(t) \/ ValuesRead(t) \/ ValuesReturn(t)
  \/ TileRangeSpawn(t) \/ ProducerStep(t) \/ DrainStep(t) \/ Abandon(t)

\* C15: Add appends one value and one entry and leaves the values and entries
\* before them as they were; no step of Values or TileRange changes the value
\* store or the set of (key, valueIndex) entries: it may only reorder the entry
\* slice and set the sorted flag to true.
C15_AppendOnlyReadOnly ==
  [][\A t \in Threads :
       /\ AddLock(t) => (values' = values /\ keys' = keys)
       /\ AddBody(t) => (Appended(values, values') /\ Appended(keys, keys'))
       /\ ReadStep(t) =>
            /\ values' = values /\ SameEntries(keys, keys')
            /\ (sorted' # sorted => sorted')]_vars

\* an Add has appended behind entries an earlier read's sort had reordered
C15_Witness ==
  /\ Len(keys) = 3 /\ ~sorted
  /\ keys[1].v > keys[2].v /\ keys[3].v = 2
  /\ values = << 1, 2, 3 >>

\* entry i is the last entry of q whose key has the prefix p
IsLastWith(q, i, p) ==
  HasPrefix(q[i].qk, p) /\ \A j \in (i + 1)..Len(q) : ~HasPrefix(q[j].qk, p)

RECURSIVE ClosedBy(_, _, _, _)
\* the prefixes of zoom z..zmax that entry i is the last to have, by increasing zoom
ClosedBy(q, i, z, zmax) ==
  IF z <= zmax /\ z <= Len(q[i].qk)
  THEN (IF IsLastWith(q, i, Slice(q[i].qk, z))
        THEN << TileFromQuadKey(Slice(q[i].qk, z)) >> ELSE << >>)
       \o ClosedBy(q, i, z + 1, zmax)
  ELSE << >>

RECURSIVE ClosingOrder(_, _, _, _)
\* entry by entry from entry i on, the prefixes each entry closes
ClosingOrder(q, i, zmin, zmax) ==
  IF i > Len(q) THEN << >>
  ELSE ClosedBy(q, i, zmin, zmax) \o ClosingOrder(q, i + 1, zmin, zmax)

\* C16: with a single caller, the tiles drained from TileRange(zmin, zmax) come in
\* the order of the entries that close them: each length-z prefix is sent when the
\* last entry, in sorted order, whose key has it is processed, the prefixes one
\* entry closes come by increasing zoom, and the final entry sends its prefix for
\* every z in [zmin, zmax] up to its key length.
C16_EmissionOrder ==
  \A t \in Threads : (Drained(t) /\ Len(keys) > 0) =>
    /\ IsSorted(keys)
    /\ recv[t] = ClosingOrder(keys, 1, arg[t].zmin, arg[t].zmax)
    /\ LET last == keys[Len(keys)].qk
           zs == { z \in arg[t].zmin..arg[t].zmax : z <= Len(last) }
       IN  /\ Len(recv[t]) >= Cardinality(zs)
           /\ \A z \in zs :
                recv[t][Len(recv[t]) - Cardinality({ y \in zs : y >= z }) + 1]
                  = TileFromQuadKey(Slice(last, z))

\* a drained range in which an earlier entry closed a deep prefix before the final
\* entry sent a shallower one and then its own prefixes by increasing zoom
C16_Witness ==
  \E t \in Threads :
    /\ Drained(t) /\ Len(keys) >= 2 /\ Len(recv[t]) >= 4
    /\ recv[t][1].Z > recv[t][2].Z
    /\ recv[t][2].Z < recv[t][3].Z
    /\ keys[1].v # 0

\* a caller holds neither the exclusive lock nor a read lock of its own
HoldsNoLock(t) == writer # t /\ << "c", t >> \notin readers

\* an Add waits for the exclusive lock, or a Values call has just been made
Called(t) == pc[t] = "alock" \/ (op[t] = "Values" /\ pc[t] = "sort")

\* the call has returned: Add to its caller, Values with its result
Returned(t) == pc[t] \in {"idle", "ret"}

\* C17: over a non-empty index, under fair scheduling and with every TileRange
\* consumer receiving until its channel is closed, every Add and every Values
\* call of any caller eventually returns, and a caller outside a call or holding
\* its result holds no lock.
C17_Progress ==
  /\ [](\A t \in Threads : pc[t] \in {"idle", "ret", "drain", "closed"} => HoldsNoLock(t))
  /\ \A t \in Threads :
       (Called(t) /\ Len(keys) > 0) ~> (Returned(t) /\ HoldsNoLock(t))

\* a Values call has returned values while another caller has drained a stream
\* whose producer had to wait for receives with the read lock held
C17_Witness ==
  \E t, u \in Threads :
    /\ t # u
    /\ Drained(t) /\ Len(recv[t]) > ChanCap
    /\ Returning(u) /\ vals[u] # << >> /\ HoldsNoLock(u)

\* s is the tail of e
IsSuffix(s, e) == Len(s) <= Len(e) /\ SubSeq(e, Len(e) - Len(s) + 1, Len(e)) = s

\* C18: while a goroutine holds the read lock, no step appends to or reorders the
\* entry slice or appends to the value store; so the tiles a producer has sent and
\* has still to send are those the entries give as they are now, and a Values
\* call that holds the lock returns what the entries and values give as they
\* were when it took it.
C18_SnapshotScan ==
  /\ [][readers # {} => (keys' = keys /\ values' = values)]_vars
  /\ [][\A t \in Threads : ValuesRead(t) =>
          (<< "c", t >> \in readers /\ vals'[t] = ValuesScan(keys, values, Query(t)))]_vars
  /\ [](\A t \in Threads :
          (<< "p", t >> \in readers /\ ppc[t] = "p_send") =>
             LET e == TileRangeEmit(keys, prange[t][1], prange[t][2])
             IN  /\ IsSuffix(chan[t] \o pend[t], e)
                 /\ pc[t] = "drain" => recv[t] \o chan[t] \o pend[t] = e)

\* a producer in the middle of its sends holds the read lock while an Add waits
\* for the exclusive lock
C18_Witness ==
  \E t, u \in Threads :
    /\ << "p", t >> \in readers /\ ppc[t] = "p_send"
    /\ chan[t] # << >> /\ pend[t] # << >>
    /\ pc[u] = "alock"

\* no element occurs twice in s
NoRepeat(s) == \A i, j \in 1..Len(s) : i # j => s[i] # s[j]

\* a Values call holds the read lock and is about to search and scan
Scanning(t) == pc[t] = "scan"

\* C19: in every interleaving with concurrent Adds and sorts, and on the empty
\* index, a Values call reads idx.keys only at indices below its length and
\* idx.values only at indices inside it, reads no place of the store twice, and
\* returns no stored value twice.
C19_ValuesNeverFaults ==
  \A t \in Threads :
    /\ Scanning(t) =>
         /\ KeyReads(keys, Query(t)) \subseteq 0..(Len(keys) - 1)
         /\ \A k \in DOMAIN ValueReads(keys, Query(t)) :
              ValueReads(keys, Query(t))[k] \in 0..(Len(values) - 1)
         /\ NoRepeat(ValueReads(keys, Query(t)))
    /\ Returning(t) => NoRepeat(vals[t])

\* a Values call about to scan entries an Add has left unsorted behind its sort,
\* its reads reaching the last entry
C19_Witness ==
  \E t \in Threads :
    /\ Scanning(t) /\ ~IsSorted(keys)
    /\ (Len(keys) - 1) \in KeyReads(keys, Query(t))
    /\ Len(ValueReads(keys, Query(t))) >= 1

====
